---- MODULE Spec2Model ----
(***************************************************************************)
(* Model of the medical agent platform's core utilities:                   *)
(*   - RateLimiter   (backend/src/utils/cache.js, second half)             *)
(*   - CacheManager  (backend/src/utils/cache.js, first half)              *)
(*   - DecisionAgent (backend/src/agents/decision.js)                      *)
(* Each component has its own specification (SpecLimiter, SpecCache,       *)
(* SpecDecide); Spec is their interleaving.                                *)
(***************************************************************************)
EXTENDS Integers, Sequences, FiniteSets, TLC

VARIABLES
    \* ---- RateLimiter ----
    capacity,      \* this.capacity
    refillRate,    \* this.refillRate
    tokens,        \* this.tokens
    timePassed,    \* Date.now() - this.lastRefill, in ms (saturating, see SatMs)
    pc,            \* per caller: "idle" | "waiting" (timer scheduled) | "returned"
    timer,         \* per caller: ms left on its setTimeout (0 = due)
    fresh,         \* TRUE while no time has elapsed since construction
    burst,         \* waitForSlot calls made while fresh (0 once time has passed)
    burstSuspended,\* how many of those calls were suspended
    remaining,     \* <<n>>: the value last returned by getRemaining (<<>> before)
    \* ---- CacheManager ----
    redisClient,   \* "null" | "connecting" | "connected"
    redisStore,    \* the durable tier: cache key -> <<>> or <<[data, ttl]>>
    memoryCache,   \* this.memoryCache: entries [key, data, expiry] in insertion order
    call,          \* per client: the get/set call awaiting the durable tier, or Idle
    outcome,       \* <<o>>: the get/set call that returned in the last step, else <<>>
    lastSet,       \* per cache key: <<>> or <<[input, data, ttl, age, latest]>>, its
                   \* last completed set, the seconds since, and whether no set
                   \* came after
    sets,          \* number of set calls made so far
    workload,      \* the inputs, values and ttls the callers of this run use
    \* ---- DecisionAgent ----
    query,         \* the query handed to decide, a sequence of characters
    decision,      \* <<>> or <<d>>: the decision decide returned for query
    classification,\* <<>> or <<r>>: the result classifyDomain returned for query
    \* ---- POST /batch ----
    body,          \* req.body of the request: [query, queries]
    stage,         \* "validate" | "handler" | "processing" | "done": where the
                   \* request is on the route's middleware chain
    status,        \* the HTTP status answered (0: no answer yet)
    batches        \* the arguments of the orchestrator.processBatch calls made

cacheVars == <<redisClient, redisStore, memoryCache, call, outcome, lastSet, sets,
               workload>>

decideVars == <<query, decision, classification>>

limiterVars == <<capacity, refillRate, tokens, timePassed, pc, timer, fresh,
                 burst, burstSuspended, remaining>>

routeVars == <<body, stage, status, batches>>

vars == <<limiterVars, cacheVars, decideVars, routeVars>>

Min(a, b) == IF a <= b THEN a ELSE b
Max(a, b) == IF a >= b THEN a ELSE b

(***************************************************************************)
(* A component's specification leaves the other two components untouched,  *)
(* in one of their initial states.                                         *)
(***************************************************************************)
LimiterUnused ==
    /\ capacity = 1 /\ refillRate = 1 /\ tokens = 1 /\ timePassed = 0
    /\ pc = [c \in {} |-> "idle"] /\ timer = [c \in {} |-> 0]
    /\ fresh = TRUE /\ burst = 0 /\ burstSuspended = 0 /\ remaining = <<>>

CacheUnused ==
    /\ redisClient = "null" /\ redisStore = <<>> /\ memoryCache = <<>>
    /\ call = <<>> /\ outcome = <<>> /\ lastSet = <<>> /\ sets = 0
    /\ workload = <<>>

DecideUnused == query = <<>> /\ decision = <<>> /\ classification = <<>>

RouteUnused == body = <<>> /\ stage = "done" /\ status = 0 /\ batches = <<>>

(***************************************************************************)
(* RateLimiter                                                             *)
(***************************************************************************)

\* Concurrent callers of one limiter (one task per source per query).
NumCallers == 2
Callers == 1..NumCallers

\* Granularity of the model's clock in ms.  Time advances in steps of TickMs.
TickMs == 250

\* Exploration stops suspending new callers once the bucket is this far below 0.
MaxDebt == 2

\* (capacity, refillRate) pairs a limiter is constructed with.
Configs == { <<1, 1>>, <<2, 1>>, <<2, 2>>, <<3, 2>> }

\* timePassed beyond this adds at least capacity + MaxDebt + NumCallers tokens,
\* so the clamp in refill() makes larger values indistinguishable.
SatMs == 1000 * refillRate * (1 + MaxDebt + NumCallers)

\* Math.ceil((1 / this.refillRate) * 1000)
WaitTime(rate) == (1000 + rate - 1) \div rate

\* Math.floor((timePassed / 1000) * (this.capacity / this.refillRate))
TokensToAdd(elapsedMs) == (elapsedMs * capacity) \div (1000 * refillRate)

\* refill(): the token count after the refill; lastRefill becomes now.
RefilledTokens == Min(capacity, tokens + TokensToAdd(timePassed))

InitLimiter ==
    /\ \E cfg \in Configs : capacity = cfg[1] /\ refillRate = cfg[2]
    /\ tokens = capacity
    /\ timePassed = 0
    /\ pc = [c \in Callers |-> "idle"]
    /\ timer = [c \in Callers |-> 0]
    /\ fresh = TRUE
    /\ burst = 0
    /\ burstSuspended = 0
    /\ remaining = <<>>

\* A waitForSlot that keeps one token back.
HasTokenStrict(t) == t > 1

\* if (this.tokens >= 1)
HasToken(t) == t >= 1

\* waitForSlot(), up to its return or to scheduling the timer.
WaitForSlot(c) ==
    /\ pc[c] = "idle"
    /\ tokens > -MaxDebt
    /\ LET t == RefilledTokens IN
       IF HasToken(t)
       THEN /\ tokens' = t - 1
            /\ pc' = [pc EXCEPT ![c] = "returned"]
            /\ timer' = timer
            /\ burstSuspended' = burstSuspended
       ELSE /\ tokens' = t
            /\ pc' = [pc EXCEPT ![c] = "waiting"]
            /\ timer' = [timer EXCEPT ![c] = WaitTime(refillRate)]
            /\ burstSuspended' = IF fresh THEN burstSuspended + 1 ELSE burstSuspended
    /\ timePassed' = 0
    /\ burst' = IF fresh THEN burst + 1 ELSE burst
    /\ UNCHANGED <<capacity, refillRate, fresh, remaining>>
    /\ UNCHANGED <<cacheVars, decideVars, routeVars>>

\* A callback that checks for a token again and waits once more without one.
TimerFiredRecheck(c) ==
    /\ pc[c] = "waiting"
    /\ timer[c] = 0
    /\ timePassed' = 0
    /\ IF RefilledTokens >= 1
       THEN /\ tokens' = RefilledTokens - 1
            /\ pc' = [pc EXCEPT ![c] = "returned"]
            /\ timer' = timer
       ELSE /\ tokens' = RefilledTokens
            /\ pc' = pc
            /\ timer' = [timer EXCEPT ![c] = WaitTime(refillRate)]
    /\ UNCHANGED <<capacity, refillRate, fresh, burst, burstSuspended, remaining>>
    /\ UNCHANGED <<cacheVars, decideVars, routeVars>>

\* A callback whose decrement writes back the count it read before the refill,
\* losing the tokens the refill added.
TimerFiredStaleWrite(c) ==
    /\ pc[c] = "waiting"
    /\ timer[c] = 0
    /\ tokens' = tokens - 1
    /\ timePassed' = 0
    /\ pc' = [pc EXCEPT ![c] = "returned"]
    /\ UNCHANGED <<capacity, refillRate, timer, fresh, burst, burstSuspended, remaining>>
    /\ UNCHANGED <<cacheVars, decideVars, routeVars>>

\* The setTimeout callback of a suspended waitForSlot: refill, decrement, resolve.
TimerFired(c) ==
    /\ pc[c] = "waiting"
    /\ timer[c] = 0
    /\ tokens' = RefilledTokens - 1
    /\ timePassed' = 0
    /\ pc' = [pc EXCEPT ![c] = "returned"]
    /\ UNCHANGED <<capacity, refillRate, timer, fresh, burst, burstSuspended, remaining>>
    /\ UNCHANGED <<cacheVars, decideVars, routeVars>>

\* The caller takes the resolved promise and is free to call again.
Resume(c) ==
    /\ pc[c] = "returned"
    /\ pc' = [pc EXCEPT ![c] = "idle"]
    /\ UNCHANGED <<capacity, refillRate, tokens, timePassed, timer, fresh,
                   burst, burstSuspended, remaining>>
    /\ UNCHANGED <<cacheVars, decideVars, routeVars>>

\* refill() called directly.
Refill ==
    /\ tokens' = RefilledTokens
    /\ timePassed' = 0
    /\ UNCHANGED <<capacity, refillRate, pc, timer, fresh, burst, burstSuspended,
                   remaining>>
    /\ UNCHANGED <<cacheVars, decideVars, routeVars>>

\* A getRemaining whose refill keeps lastRefill when it added no whole token.
GetRemainingCarryOver ==
    /\ tokens' = RefilledTokens
    /\ timePassed' = IF TokensToAdd(timePassed) = 0 THEN timePassed ELSE 0
    /\ remaining' = <<tokens'>>
    /\ UNCHANGED <<capacity, refillRate, pc, timer, fresh, burst, burstSuspended>>
    /\ UNCHANGED <<cacheVars, decideVars, routeVars>>

\* getRemaining(): refill, then report the token count.
GetRemaining ==
    /\ tokens' = RefilledTokens
    /\ timePassed' = 0
    /\ remaining' = <<tokens'>>
    /\ UNCHANGED <<capacity, refillRate, pc, timer, fresh, burst, burstSuspended>>
    /\ UNCHANGED <<cacheVars, decideVars, routeVars>>

\* TickMs of wall-clock time pass; due timers stay due until the loop runs them.
LimiterTick ==
    /\ timePassed' = Min(timePassed + TickMs, SatMs)
    /\ timer' = [c \in Callers |->
                   IF pc[c] = "waiting" THEN Max(0, timer[c] - TickMs) ELSE timer[c]]
    /\ fresh' = FALSE
    /\ burst' = 0
    /\ burstSuspended' = 0
    /\ UNCHANGED <<capacity, refillRate, tokens, pc, remaining>>
    /\ UNCHANGED <<cacheVars, decideVars, routeVars>>

NextLimiter ==
    \/ \E c \in Callers : WaitForSlot(c)
    \/ \E c \in Callers : TimerFired(c)
    \/ \E c \in Callers : Resume(c)
    \/ Refill
    \/ GetRemaining
    \/ LimiterTick

InitLimiterSpec == InitLimiter /\ CacheUnused /\ DecideUnused /\ RouteUnused

SpecLimiter == InitLimiterSpec /\ [][NextLimiter]_vars

\* The event loop keeps running: the clock advances and a due timer is run.
FairSpecLimiter ==
    /\ SpecLimiter
    /\ WF_vars(LimiterTick)
    /\ \A c \in Callers : WF_vars(TimerFired(c))

(***************************************************************************)
(* Claims about the RateLimiter                                            *)
(***************************************************************************)

\* C1: in every reachable state the token count is within [0, capacity].
C1_TokensInRange == 0 <= tokens /\ tokens <= capacity

\* C6: while no time has elapsed since construction, the first `capacity`
\* waitForSlot calls are not suspended and take exactly one token each, and
\* every call after them is suspended (the first of them being call capacity+1).
C6_BurstAdmission ==
    fresh =>
        /\ burst <= capacity => burstSuspended = 0 /\ tokens = capacity - burst
        /\ burst > capacity => burstSuspended = burst - capacity /\ tokens = 0
        /\ Cardinality({c \in Callers : pc[c] = "waiting"}) = burstSuspended

\* C6 witness: the burst has used every token and call capacity+1 was suspended.
C6_Witness == fresh /\ burst = capacity + 1 /\ burstSuspended = 1 /\ capacity >= 2

\* C7, safety half: a suspended call is given the fixed wait
\* ceil(1000 / refillRate), its timer is never re-armed, and when it leaves the
\* wait it has waited the whole time, refilled, taken exactly one token and
\* returned, whatever the token count was.
C7_StepOk(c) ==
    /\ (pc[c] = "idle" /\ pc'[c] = "waiting") => timer'[c] = WaitTime(refillRate)
    /\ pc[c] = "waiting" => timer'[c] <= timer[c]
    /\ (pc[c] = "waiting" /\ pc'[c] # "waiting") =>
          /\ pc'[c] = "returned"
          /\ timer[c] = 0
          /\ tokens' = RefilledTokens - 1

\* C7: every suspended waitForSlot call returns, after one fixed wait and one
\* unconditional refill-and-decrement.
C7_AcquireCompletes ==
    /\ [][\A c \in Callers : C7_StepOk(c)]_limiterVars
    /\ \A c \in Callers : (pc[c] = "waiting") ~> (pc[c] = "returned")

\* C7 witness: a caller suspended with no token available has returned, leaving
\* the count below zero (so the decrement was unconditional).
C7_Witness == \E c \in Callers : pc[c] = "returned" /\ tokens < 0

\* C14, one step: at most one call returns in a step; a returning call leaves
\* the count at exactly the refilled count less one; a step in which no call
\* returns leaves the count as it was or as refill makes it.
C14_Step ==
    LET served == {c \in Callers : pc[c] # "returned" /\ pc'[c] = "returned"} IN
    /\ Cardinality(served) <= 1
    /\ served # {} => tokens' = RefilledTokens - 1
    /\ served = {} => tokens' \in {tokens, RefilledTokens}

\* C14: refill-then-decrement is atomic for every returning waitForSlot call,
\* immediate or resumed by its timer: the count decreases by exactly one per
\* returned call, net of what refill added, and no update is lost.
C14_NoLostUpdate == [][C14_Step]_vars

\* C14 witness: every caller has returned, none has resumed yet, and the count
\* is below zero, so at least one of them returned from its timer callback.
C14_Witness ==
    /\ \A c \in Callers : pc[c] = "returned"
    /\ ~fresh /\ timePassed = 0 /\ tokens < 0

\* A step in which only the clock advances, and one in which a caller only
\* takes its resolved promise.
C16_ClockStep ==
    /\ timePassed' = Min(timePassed + TickMs, SatMs)
    /\ tokens' = tokens /\ pc' = pc /\ remaining' = remaining
C16_ResumeStep ==
    /\ timePassed' = timePassed
    /\ tokens' = tokens /\ remaining' = remaining
    /\ \E c \in Callers : pc[c] = "returned" /\ pc' = [pc EXCEPT ![c] = "idle"]

\* C16, one step: every call that refills (waitForSlot, its timer callback,
\* refill, getRemaining) leaves lastRefill at the current time, whether or not
\* it added a token; and the count increases only when at least
\* refillRate / capacity seconds have passed since the previous such call.
C16_Step ==
    /\ C16_ClockStep \/ C16_ResumeStep \/ timePassed' = 0
    /\ tokens' > tokens => timePassed * capacity >= 1000 * refillRate

\* C16: refill discards the elapsed time that made no whole token, so calls
\* spaced less than refillRate / capacity seconds apart never add a token, and
\* getRemaining changes the bucket (lastRefill) it reports on.
C16_RefillDiscardsTime == [][C16_Step]_vars

\* C16 witness: time has passed, getRemaining has just reported a count below
\* capacity, and the elapsed time is gone.
C16_Witness ==
    /\ ~fresh /\ timePassed = 0
    /\ remaining = <<tokens>> /\ tokens < capacity /\ tokens >= 0
    /\ \A c \in Callers : pc[c] = "returned"

(***************************************************************************)
(* CacheManager                                                            *)
(***************************************************************************)

\* Concurrent callers of one CacheManager.
NumClients == 2
Clients == 1..NumClients

\* this.maxMemoryItems; the source sets 1000, the model a capacity it can fill.
maxMemoryItems == 2

\* The model explores runs of at most this many set calls.
MaxSets == 3

\* ttl values (seconds) passed to set; the cache clock advances one second a tick.
MaxTtl == 2
Ttls == 1..MaxTtl

\* substring(0, 32)
KeyChars == 32

\* Caller-supplied inputs, as the bytes Buffer.from(input) yields: "a", "b", and
\* two 25-byte inputs that differ only in their last byte.
SharedPrefix == [i \in 1..24 |-> 113]
Inputs == { <<97>>, <<98>>, SharedPrefix \o <<49>>, SharedPrefix \o <<50>> }

\* toString('base64'): each 3 bytes become 4 sextets (0..63); 64 stands for the
\* padding character '='.  The alphabet lookup is one-to-one and left out.
RECURSIVE Base64(_)
Base64(b) ==
    IF Len(b) = 0 THEN <<>>
    ELSE IF Len(b) = 1 THEN << b[1] \div 4, (b[1] % 4) * 16, 64, 64 >>
    ELSE IF Len(b) = 2
         THEN << b[1] \div 4, (b[1] % 4) * 16 + b[2] \div 16, (b[2] % 16) * 4, 64 >>
    ELSE << b[1] \div 4, (b[1] % 4) * 16 + b[2] \div 16,
            (b[2] % 16) * 4 + b[3] \div 64, b[3] % 64 >>
         \o Base64(SubSeq(b, 4, Len(b)))

\* generateKey(input)
GenerateKey(input) ==
    LET b64 == Base64(input) IN
    [prefix |-> "medical_agent:", b64 |-> SubSeq(b64, 1, Min(KeyChars, Len(b64)))]

\* The cache key of each input, computed once.
KeyOf == [i \in Inputs |-> GenerateKey(i)]

CacheKeys == { KeyOf[i] : i \in Inputs }

\* Values handed to set.  "NaN" is a value JSON cannot carry; "null" is JS null.
Values == { "r1", "r2", "NaN" }

\* What the callers of one run use: one key with every value, three keys with
\* one value, or the two inputs that share their first 24 bytes with two values.
Workloads ==
    { [inputs |-> {<<97>>, <<98>>, SharedPrefix \o <<49>>}, values |-> {"r1"},
       ttls |-> Ttls],
      [inputs |-> {<<97>>}, values |-> Values, ttls |-> Ttls],
      [inputs |-> {SharedPrefix \o <<49>>, SharedPrefix \o <<50>>},
       values |-> {"r1", "r2"}, ttls |-> {1}] }

\* JSON.stringify(value): NaN is written as null.
JSONStringify(v) == [json |-> IF v = "NaN" THEN "null" ELSE v]

\* JSON.parse(text)
JSONParse(text) == text.json

\* Index of key in the map's insertion order, 0 when absent.
IndexOf(m, key) ==
    IF \E i \in 1..Len(m) : m[i].key = key
    THEN CHOOSE i \in 1..Len(m) : m[i].key = key
    ELSE 0

\* Map.prototype.set: an existing key keeps its place, a new key goes last.
MapSet(m, key, entry) ==
    IF IndexOf(m, key) > 0 THEN [m EXCEPT ![IndexOf(m, key)] = entry]
    ELSE Append(m, entry)

\* A setMemoryCache that evicts only to make room for a key the map lacks.
SetMemoryCacheKeepPresent(m, key, value, ttl) ==
    LET kept == IF Len(m) >= maxMemoryItems /\ ~\E i \in 1..Len(m) : m[i].key = key
                THEN Tail(m) ELSE m
    IN IF \E i \in 1..Len(kept) : kept[i].key = key
       THEN [i \in 1..Len(kept) |->
               IF kept[i].key = key
               THEN [key |-> key, data |-> value, expiry |-> ttl] ELSE kept[i]]
       ELSE Append(kept, [key |-> key, data |-> value, expiry |-> ttl])

\* A cache that evicts only once it is over capacity.
IsFullOffByOne(m) == Len(m) > maxMemoryItems

\* this.memoryCache.size >= this.maxMemoryItems
IsFull(m) == Len(m) >= maxMemoryItems

\* setMemoryCache(key, value, ttl): the map afterwards.  expiry is kept as the
\* seconds left until Date.now() reaches it.
SetMemoryCache(m, key, value, ttl) ==
    LET kept == IF IsFull(m) THEN Tail(m) ELSE m IN
    MapSet(kept, key, [key |-> key, data |-> value, expiry |-> ttl])

\* get(), the fallback to the memory cache: the data if present and
\* Date.now() < expiry, else null.
MemoryLookup(m, key) ==
    IF IndexOf(m, key) > 0 /\ m[IndexOf(m, key)].expiry > 0
    THEN m[IndexOf(m, key)].data
    ELSE "null"

Idle == [op |-> "idle"]

\* The outcome of a get: what it returned, how the durable tier answered, and the
\* last completed set of its cache key as it stood when get returned.
Got(input, result, redis, quiet) ==
    <<[op |-> "get", key |-> input, result |-> result, threw |-> FALSE,
       redis |-> redis, quiet |-> quiet, last |-> lastSet[KeyOf[input]]]>>

\* The calls in flight after a set completed or time passed: a get that was
\* waiting for the durable tier no longer ran in one instant.
Disturbed(calls) ==
    [c \in Clients |->
        IF calls[c].op = "get" THEN [calls[c] EXCEPT !.quiet = FALSE] ELSE calls[c]]

\* The outcome of a set.
SetDone(input, value, ttl, redis) ==
    <<[op |-> "set", key |-> input, value |-> value, ttl |-> ttl, threw |-> FALSE,
       redis |-> redis]>>

InitCache ==
    /\ redisClient \in {"null", "connecting"}
    /\ redisStore = [k \in CacheKeys |-> <<>>]
    /\ memoryCache = <<>>
    /\ call = [c \in Clients |-> Idle]
    /\ outcome = <<>>
    /\ lastSet = [k \in CacheKeys |-> <<>>]
    /\ sets = 0
    /\ workload \in Workloads

\* initializeRedis(): connect() resolved.
RedisConnected ==
    /\ redisClient = "connecting"
    /\ redisClient' = "connected"
    /\ outcome' = <<>>
    /\ UNCHANGED <<redisStore, memoryCache, call, lastSet, sets, workload>>
    /\ UNCHANGED <<limiterVars, decideVars, routeVars>>

\* initializeRedis(): connect() rejected, the catch clears the client.
RedisConnectFailed ==
    /\ redisClient = "connecting"
    /\ redisClient' = "null"
    /\ outcome' = <<>>
    /\ UNCHANGED <<redisStore, memoryCache, call, lastSet, sets, workload>>
    /\ UNCHANGED <<limiterVars, decideVars, routeVars>>

\* get(key) up to its first await, or to its return when there is no client.
Get(c, input) ==
    /\ call[c] = Idle
    /\ IF redisClient # "null"
       THEN /\ call' = [call EXCEPT ![c] =
                            [op |-> "get", key |-> input, quiet |-> TRUE]]
            /\ outcome' = <<>>
       ELSE /\ call' = call
            /\ outcome' = Got(input, MemoryLookup(memoryCache, KeyOf[input]), "none",
                            TRUE)
    /\ UNCHANGED <<redisClient, redisStore, memoryCache, lastSet, sets, workload>>
    /\ UNCHANGED <<limiterVars, decideVars, routeVars>>

\* get(key) resumed with the durable tier's answer.
RedisGetOk(c) ==
    /\ call[c].op = "get"
    /\ redisClient = "connected"
    /\ LET input == call[c].key
           cached == redisStore[KeyOf[input]]
       IN outcome' =
            IF cached # <<>>
            THEN Got(input, JSONParse(cached[1].data), "hit", call[c].quiet)
            ELSE Got(input, MemoryLookup(memoryCache, KeyOf[input]), "miss",
                     call[c].quiet)
    /\ call' = [call EXCEPT ![c] = Idle]
    /\ UNCHANGED <<redisClient, redisStore, memoryCache, lastSet, sets, workload>>
    /\ UNCHANGED <<limiterVars, decideVars, routeVars>>

\* get(key) resumed with the durable tier's error: caught, memory answers.
RedisGetError(c) ==
    /\ call[c].op = "get"
    /\ LET input == call[c].key IN
       outcome' = Got(input, MemoryLookup(memoryCache, KeyOf[input]), "error",
                      call[c].quiet)
    /\ call' = [call EXCEPT ![c] = Idle]
    /\ UNCHANGED <<redisClient, redisStore, memoryCache, lastSet, sets, workload>>
    /\ UNCHANGED <<limiterVars, decideVars, routeVars>>

\* The tail of set(): setMemoryCache, and the record of the completed set.
FinishSet(c, input, value, ttl, redis) ==
    /\ memoryCache' = SetMemoryCache(memoryCache, KeyOf[input], value, ttl)
    /\ lastSet' = [k \in CacheKeys |->
            IF k = KeyOf[input]
            THEN <<[input |-> input, data |-> value, ttl |-> ttl, age |-> 0,
                    latest |-> TRUE]>>
            ELSE IF lastSet[k] = <<>> THEN <<>>
            ELSE <<[lastSet[k][1] EXCEPT !.latest = FALSE]>>]
    /\ call' = Disturbed([call EXCEPT ![c] = Idle])
    /\ outcome' = SetDone(input, value, ttl, redis)

\* set(key, value, ttl) up to its first await, or to its return when there is
\* no client.
Set(c, input, value, ttl) ==
    /\ call[c] = Idle
    /\ sets < MaxSets
    /\ sets' = sets + 1
    /\ IF redisClient # "null"
       THEN /\ call' = [call EXCEPT ![c] =
                   [op |-> "set", key |-> input, value |-> value, ttl |-> ttl]]
            /\ outcome' = <<>>
            /\ UNCHANGED <<memoryCache, lastSet>>
       ELSE FinishSet(c, input, value, ttl, "none")
    /\ UNCHANGED <<redisClient, redisStore, workload>>
    /\ UNCHANGED <<limiterVars, decideVars, routeVars>>

\* set() resumed after setEx stored the serialized value with its ttl.
RedisSetOk(c) ==
    /\ call[c].op = "set"
    /\ redisClient = "connected"
    /\ redisStore' = [redisStore EXCEPT ![KeyOf[call[c].key]] =
            <<[data |-> JSONStringify(call[c].value), ttl |-> call[c].ttl]>>]
    /\ FinishSet(c, call[c].key, call[c].value, call[c].ttl, "ok")
    /\ UNCHANGED <<redisClient, sets, workload>>
    /\ UNCHANGED <<limiterVars, decideVars, routeVars>>

\* A set that lets the durable tier's error reach its caller.
RedisSetErrorUncaught(c) ==
    /\ call[c].op = "set"
    /\ outcome' = <<[SetDone(call[c].key, call[c].value, call[c].ttl, "error")[1]
                       EXCEPT !.threw = TRUE]>>
    /\ call' = [call EXCEPT ![c] = Idle]
    /\ UNCHANGED <<redisClient, redisStore, memoryCache, lastSet, sets, workload>>
    /\ UNCHANGED <<limiterVars, decideVars, routeVars>>

\* set() resumed after setEx failed: caught, the memory cache is still written.
RedisSetError(c) ==
    /\ call[c].op = "set"
    /\ FinishSet(c, call[c].key, call[c].value, call[c].ttl, "error")
    /\ UNCHANGED <<redisClient, redisStore, sets, workload>>
    /\ UNCHANGED <<limiterVars, decideVars, routeVars>>

\* One second passes: expiries come closer, the durable tier drops what expired.
CacheTick ==
    /\ memoryCache' = [i \in 1..Len(memoryCache) |->
            [memoryCache[i] EXCEPT !.expiry = Max(0, @ - 1)]]
    /\ redisStore' = [k \in CacheKeys |->
            IF redisStore[k] = <<>> \/ redisStore[k][1].ttl <= 1 THEN <<>>
            ELSE <<[redisStore[k][1] EXCEPT !.ttl = @ - 1]>>]
    /\ lastSet' = [k \in CacheKeys |->
            IF lastSet[k] = <<>> THEN <<>>
            ELSE <<[lastSet[k][1] EXCEPT !.age = Min(MaxTtl, @ + 1)]>>]
    /\ call' = Disturbed(call)
    /\ outcome' = <<>>
    /\ UNCHANGED <<redisClient, sets, workload>>
    /\ UNCHANGED <<limiterVars, decideVars, routeVars>>

NextCache ==
    \/ RedisConnected
    \/ RedisConnectFailed
    \/ \E c \in Clients, i \in workload.inputs : Get(c, i)
    \/ \E c \in Clients : RedisGetOk(c)
    \/ \E c \in Clients : RedisGetError(c)
    \/ \E c \in Clients, i \in workload.inputs, v \in workload.values,
          t \in workload.ttls : Set(c, i, v, t)
    \/ \E c \in Clients : RedisSetOk(c)
    \/ \E c \in Clients : RedisSetError(c)
    \/ CacheTick

InitCacheSpec == InitCache /\ LimiterUnused /\ DecideUnused /\ RouteUnused

SpecCache == InitCacheSpec /\ [][NextCache]_vars

(***************************************************************************)
(* DecisionAgent                                                           *)
(***************************************************************************)

\* A query is a sequence of one-character strings.
UpperLetters == <<"A", "B", "C", "D", "E", "F", "G", "H", "I", "J", "K", "L", "M",
                  "N", "O", "P", "Q", "R", "S", "T", "U", "V", "W", "X", "Y", "Z">>
LowerLetters == <<"a", "b", "c", "d", "e", "f", "g", "h", "i", "j", "k", "l", "m",
                  "n", "o", "p", "q", "r", "s", "t", "u", "v", "w", "x", "y", "z">>

\* The lower-case letter of each upper-case letter.
LowerOf ==
    "A" :> "a" @@ "B" :> "b" @@ "C" :> "c" @@ "D" :> "d" @@ "E" :> "e" @@
    "F" :> "f" @@ "G" :> "g" @@ "H" :> "h" @@ "I" :> "i" @@ "J" :> "j" @@
    "K" :> "k" @@ "L" :> "l" @@ "M" :> "m" @@ "N" :> "n" @@ "O" :> "o" @@
    "P" :> "p" @@ "Q" :> "q" @@ "R" :> "r" @@ "S" :> "s" @@ "T" :> "t" @@
    "U" :> "u" @@ "V" :> "v" @@ "W" :> "w" @@ "X" :> "x" @@ "Y" :> "y" @@
    "Z" :> "z"

\* One character of toLowerCase(), and of matching under the i flag.
Lower(ch) == IF ch \in DOMAIN LowerOf THEN LowerOf[ch] ELSE ch

\* query.toLowerCase()
RECURSIVE ToLowerCase(_)
ToLowerCase(q) ==
    IF q = <<>> THEN <<>> ELSE <<Lower(Head(q))>> \o ToLowerCase(Tail(q))

\* \d, \s, the line terminators "." excludes, and \w
Digit == {"0", "1", "2", "3", "4", "5", "6", "7", "8", "9"}
Space == {" ", "\t", "\n"}
LineEnd == {"\n"}
WordChars ==
    {LowerLetters[i] : i \in 1..Len(LowerLetters)}
        \cup {UpperLetters[i] : i \in 1..Len(UpperLetters)} \cup Digit \cup {"_"}

\* A regular expression is a set of alternatives, each a sequence of atoms: a
\* character class (or its complement) repeated lo..hi times.
Unbounded == -1
Rep(set, lo, hi) == [neg |-> FALSE, set |-> set, lo |-> lo, hi |-> hi]
RepNot(set, lo, hi) == [neg |-> TRUE, set |-> set, lo |-> lo, hi |-> hi]
Lit(cs) == [i \in 1..Len(cs) |-> Rep({cs[i]}, 1, 1)]

\* Whether the character ch is matched by the atom under the i flag: patterns
\* are written in lower case and the character is compared in lower case.
InClass(ch, atom) == (Lower(ch) \in atom.set) # atom.neg

\* The positions after a match of one atom that starts at position i of q
\* (an atom matched exactly once is the common case and is decided directly).
EndsAtom(atom, q, i) ==
    IF atom.lo = 1 /\ atom.hi = 1
    THEN IF i <= Len(q) /\ InClass(q[i], atom) THEN {i + 1} ELSE {}
    ELSE LET most == IF atom.hi = Unbounded THEN Len(q) + 1 - i
                     ELSE Min(atom.hi, Len(q) + 1 - i)
         IN { i + n : n \in { m \in atom.lo..most :
                                \A p \in i..(i + m - 1) : InClass(q[p], atom) } }

\* The positions after a match of atoms[k..] that starts at position i of q.
RECURSIVE Ends(_, _, _, _)
Ends(atoms, k, q, i) ==
    IF k > Len(atoms) THEN {i}
    ELSE UNION { Ends(atoms, k + 1, q, j) : j \in EndsAtom(atoms[k], q, i) }

\* \b between q[i-1] and q[i]
WordBoundary(q, i) ==
    LET before == i > 1 /\ q[i - 1] \in WordChars
        after == i <= Len(q) /\ q[i] \in WordChars
    IN before # after

\* The matches of /\b(alt1|alt2|...)\b/i in q, as <<start, end>> position
\* pairs; letters are compared in lower case.
Matches(pattern, q) ==
    UNION { { <<i, j>> : j \in { e \in UNION { Ends(alt, 1, q, i) : alt \in pattern } :
                                   WordBoundary(q, e) } } :
            i \in { b \in 1..(Len(q) + 1) : WordBoundary(q, b) } }

\* pattern.test(q), and whether query.match(pattern) is non-null
Test(pattern, q) ==
    \E i \in 1..(Len(q) + 1) :
        /\ WordBoundary(q, i)
        /\ \E alt \in pattern : \E j \in Ends(alt, 1, q, i) : WordBoundary(q, j)

\* query.match(pattern)[0]: the leftmost match, taken greedily.
MatchText(pattern, q) ==
    LET ms == Matches(pattern, q)
        i == CHOOSE a \in {m[1] : m \in ms} : \A m \in ms : a <= m[1]
        j == CHOOSE b \in {m[2] : m \in ms} :
                 <<i, b>> \in ms /\ \A m \in ms : m[1] = i => m[2] <= b
    IN SubSeq(q, i, j - 1)

\* specificIdentifiers.nct: /\b(NCT\d{8})\b/i
nct ==
    { Lit(<<"n", "c", "t">>) \o <<Rep(Digit, 8, 8)>> }

\* specificIdentifiers.pmid: /\b(PMID:?\s*\d+|PMC\d+)\b/i
pmid ==
    { Lit(<<"p", "m", "i", "d">>) \o <<Rep({":"}, 0, 1)>> \o <<Rep(Space, 0, Unbounded)>> \o <<Rep(Digit, 1, Unbounded)>>,
      Lit(<<"p", "m", "c">>) \o <<Rep(Digit, 1, Unbounded)>> }

\* specificIdentifiers.doi: /\b(10\.\d{4,}\/[^\s]+)\b/i
doi ==
    { Lit(<<"1", "0", ".">>) \o <<Rep(Digit, 4, Unbounded)>> \o Lit(<<"/">>) \o <<RepNot(Space, 1, Unbounded)>> }

\* specificIdentifiers.fda: /\b(NDA\s*\d+|ANDA\s*\d+|BLA\s*\d+)\b/i
fda ==
    { Lit(<<"n", "d", "a">>) \o <<Rep(Space, 0, Unbounded)>> \o <<Rep(Digit, 1, Unbounded)>>,
      Lit(<<"a", "n", "d", "a">>) \o <<Rep(Space, 0, Unbounded)>> \o <<Rep(Digit, 1, Unbounded)>>,
      Lit(<<"b", "l", "a">>) \o <<Rep(Space, 0, Unbounded)>> \o <<Rep(Digit, 1, Unbounded)>> }

\* domains.clinicalTrial.patterns[0]: /\b(clinical trial|study protocol|NCT\d{8})\b/i
clinicalTrial1 ==
    { Lit(<<"c", "l", "i", "n", "i", "c", "a", "l", " ", "t", "r", "i", "a", "l">>),
      Lit(<<"s", "t", "u", "d", "y", " ", "p", "r", "o", "t", "o", "c", "o", "l">>),
      Lit(<<"n", "c", "t">>) \o <<Rep(Digit, 8, 8)>> }

\* domains.clinicalTrial.patterns[1]: /\b(phase\s*[I|II|III|1|2|3]|recruitment|enrollment)\b/i
clinicalTrial2 ==
    { Lit(<<"p", "h", "a", "s", "e">>) \o <<Rep(Space, 0, Unbounded)>> \o <<Rep({"1", "2", "3", "i", "|"}, 1, 1)>>,
      Lit(<<"r", "e", "c", "r", "u", "i", "t", "m", "e", "n", "t">>),
      Lit(<<"e", "n", "r", "o", "l", "l", "m", "e", "n", "t">>) }

\* domains.clinicalTrial.patterns[2]: /\b(randomized|controlled|placebo|double.blind)\b/i
clinicalTrial3 ==
    { Lit(<<"r", "a", "n", "d", "o", "m", "i", "z", "e", "d">>),
      Lit(<<"c", "o", "n", "t", "r", "o", "l", "l", "e", "d">>),
      Lit(<<"p", "l", "a", "c", "e", "b", "o">>),
      Lit(<<"d", "o", "u", "b", "l", "e">>) \o <<RepNot(LineEnd, 1, 1)>> \o Lit(<<"b", "l", "i", "n", "d">>) }

\* domains.drugSafety.patterns[0]: /\b(side effect|adverse event|safety|toxicity)\b/i
drugSafety1 ==
    { Lit(<<"s", "i", "d", "e", " ", "e", "f", "f", "e", "c", "t">>),
      Lit(<<"a", "d", "v", "e", "r", "s", "e", " ", "e", "v", "e", "n", "t">>),
      Lit(<<"s", "a", "f", "e", "t", "y">>),
      Lit(<<"t", "o", "x", "i", "c", "i", "t", "y">>) }

\* domains.drugSafety.patterns[1]: /\b(FDA\s*(approval|warning|recall))\b/i
drugSafety2 ==
    { Lit(<<"f", "d", "a">>) \o <<Rep(Space, 0, Unbounded)>> \o Lit(<<"a", "p", "p", "r", "o", "v", "a", "l">>),
      Lit(<<"f", "d", "a">>) \o <<Rep(Space, 0, Unbounded)>> \o Lit(<<"w", "a", "r", "n", "i", "n", "g">>),
      Lit(<<"f", "d", "a">>) \o <<Rep(Space, 0, Unbounded)>> \o Lit(<<"r", "e", "c", "a", "l", "l">>) }

\* domains.drugSafety.patterns[2]: /\b(contraindication|black box|warning)\b/i
drugSafety3 ==
    { Lit(<<"c", "o", "n", "t", "r", "a", "i", "n", "d", "i", "c", "a", "t", "i", "o", "n">>),
      Lit(<<"b", "l", "a", "c", "k", " ", "b", "o", "x">>),
      Lit(<<"w", "a", "r", "n", "i", "n", "g">>) }

\* domains.drugInfo.patterns[0]: /\b(drug|medication|pharmaceutical|therapeutic)\b/i
drugInfo1 ==
    { Lit(<<"d", "r", "u", "g">>),
      Lit(<<"m", "e", "d", "i", "c", "a", "t", "i", "o", "n">>),
      Lit(<<"p", "h", "a", "r", "m", "a", "c", "e", "u", "t", "i", "c", "a", "l">>),
      Lit(<<"t", "h", "e", "r", "a", "p", "e", "u", "t", "i", "c">>) }

\* domains.drugInfo.patterns[1]: /\b(dosage|administration|indication|mechanism)\b/i
drugInfo2 ==
    { Lit(<<"d", "o", "s", "a", "g", "e">>),
      Lit(<<"a", "d", "m", "i", "n", "i", "s", "t", "r", "a", "t", "i", "o", "n">>),
      Lit(<<"i", "n", "d", "i", "c", "a", "t", "i", "o", "n">>),
      Lit(<<"m", "e", "c", "h", "a", "n", "i", "s", "m">>) }

\* domains.drugInfo.patterns[2]: /\b(prescription|over.the.counter|OTC)\b/i
drugInfo3 ==
    { Lit(<<"p", "r", "e", "s", "c", "r", "i", "p", "t", "i", "o", "n">>),
      Lit(<<"o", "v", "e", "r">>) \o <<RepNot(LineEnd, 1, 1)>> \o Lit(<<"t", "h", "e">>) \o <<RepNot(LineEnd, 1, 1)>> \o Lit(<<"c", "o", "u", "n", "t", "e", "r">>),
      Lit(<<"o", "t", "c">>) }

\* domains.literatureReview.patterns[0]: /\b(meta.analysis|systematic review|literature)\b/i
literatureReview1 ==
    { Lit(<<"m", "e", "t", "a">>) \o <<RepNot(LineEnd, 1, 1)>> \o Lit(<<"a", "n", "a", "l", "y", "s", "i", "s">>),
      Lit(<<"s", "y", "s", "t", "e", "m", "a", "t", "i", "c", " ", "r", "e", "v", "i", "e", "w">>),
      Lit(<<"l", "i", "t", "e", "r", "a", "t", "u", "r", "e">>) }

\* domains.literatureReview.patterns[1]: /\b(research|study|investigation|analysis)\b/i
literatureReview2 ==
    { Lit(<<"r", "e", "s", "e", "a", "r", "c", "h">>),
      Lit(<<"s", "t", "u", "d", "y">>),
      Lit(<<"i", "n", "v", "e", "s", "t", "i", "g", "a", "t", "i", "o", "n">>),
      Lit(<<"a", "n", "a", "l", "y", "s", "i", "s">>) }

\* domains.literatureReview.patterns[2]: /\b(evidence|findings|results|outcomes)\b/i
literatureReview3 ==
    { Lit(<<"e", "v", "i", "d", "e", "n", "c", "e">>),
      Lit(<<"f", "i", "n", "d", "i", "n", "g", "s">>),
      Lit(<<"r", "e", "s", "u", "l", "t", "s">>),
      Lit(<<"o", "u", "t", "c", "o", "m", "e", "s">>) }

\* this.patterns.domains, in the order Object.entries yields them; confidence
\* in hundredths.
domains ==
    << [domain |-> "clinicalTrial",
        patterns |-> <<clinicalTrial1, clinicalTrial2, clinicalTrial3>>,
        sources |-> <<"clinicaltrials", "pubmed">>, confidence |-> 85],
       [domain |-> "drugSafety",
        patterns |-> <<drugSafety1, drugSafety2, drugSafety3>>,
        sources |-> <<"openfda", "pubmed">>, confidence |-> 90],
       [domain |-> "drugInfo",
        patterns |-> <<drugInfo1, drugInfo2, drugInfo3>>,
        sources |-> <<"openfda", "pubmed", "clinicaltrials">>, confidence |-> 80],
       [domain |-> "literatureReview",
        patterns |-> <<literatureReview1, literatureReview2, literatureReview3>>,
        sources |-> <<"pubmed">>, confidence |-> 75] >>

\* An agent that looks for a literature id before a trial id.
checkSpecificIdentifiersPmidFirst(q) ==
    IF Test(pmid, q)
    THEN [found |-> TRUE, identifier |-> MatchText(pmid, q),
          type |-> "literature_lookup", sources |-> <<"pubmed">>]
    ELSE IF Test(nct, q)
    THEN [found |-> TRUE, identifier |-> MatchText(nct, q),
          type |-> "clinical_trial_lookup", sources |-> <<"clinicaltrials", "pubmed">>]
    ELSE [found |-> FALSE, identifier |-> <<>>, type |-> "", sources |-> <<>>]

\* checkSpecificIdentifiers(query)
checkSpecificIdentifiers(q) ==
    IF Test(nct, q)
    THEN [found |-> TRUE, identifier |-> MatchText(nct, q),
          type |-> "clinical_trial_lookup", sources |-> <<"clinicaltrials", "pubmed">>]
    ELSE IF Test(pmid, q)
    THEN [found |-> TRUE, identifier |-> MatchText(pmid, q),
          type |-> "literature_lookup", sources |-> <<"pubmed">>]
    ELSE [found |-> FALSE, identifier |-> <<>>, type |-> "", sources |-> <<>>]

\* calculateDomainScore(query, patterns), in tenths: 0.4 a matching pattern,
\* at most 1.0.
calculateDomainScore(q, patterns) ==
    LET queryLower == ToLowerCase(q) IN
    Min(4 * Cardinality({i \in 1..Len(patterns) : Test(patterns[i], queryLower)}), 10)

\* The forEach of classifyDomain over domains[k..]: <<bestMatch, bestScore>>,
\* bestMatch being 0 (null) or the index of the best domain so far.
RECURSIVE BestDomain(_, _, _, _)
BestDomain(q, k, bestMatch, bestScore) ==
    IF k > Len(domains) THEN <<bestMatch, bestScore>>
    ELSE LET matchScore == calculateDomainScore(q, domains[k].patterns) IN
         IF matchScore > bestScore
         THEN BestDomain(q, k + 1, k, matchScore)
         ELSE BestDomain(q, k + 1, bestMatch, bestScore)

\* classifyDomain(query); confidence in thousandths (config.confidence * matchScore).
classifyDomain(q) ==
    LET best == BestDomain(q, 1, 0, 0) IN
    IF best[1] # 0 /\ best[2] > 3
    THEN [domain |-> domains[best[1]].domain, sources |-> domains[best[1]].sources,
          confidence |-> domains[best[1]].confidence * best[2]]
    ELSE [domain |-> "", sources |-> <<>>, confidence |-> 0]

\* A decide that leaves the confidence of its fallback at the initial 0.5.
decideFallbackUnset(q, ms) ==
    LET specificMatch == checkSpecificIdentifiers(q)
        domainMatch == classifyDomain(q)
        base == [useDocuments |-> FALSE, useExternal |-> TRUE, documentQuery |-> <<>>,
                 processingTimeMs |-> ms]
    IN IF specificMatch.found
       THEN base @@ [externalSources |-> specificMatch.sources,
                     intent |-> specificMatch.type, confidence |-> 950,
                     reasoning |-> <<"Specific identifier detected", specificMatch.identifier>>]
       ELSE IF domainMatch.domain # ""
       THEN base @@ [externalSources |-> domainMatch.sources,
                     intent |-> domainMatch.domain, confidence |-> domainMatch.confidence,
                     reasoning |-> <<"Classified as", domainMatch.domain>>]
       ELSE base @@ [externalSources |-> <<"pubmed">>, intent |-> "general_medical",
                     confidence |-> 500,
                     reasoning |-> <<"General medical query">>]

\* decide(query): the decision returned, ms being Date.now() - startTime;
\* confidence in thousandths.
decide(q, ms) ==
    LET specificMatch == checkSpecificIdentifiers(q)
        domainMatch == classifyDomain(q)
        base == [useDocuments |-> FALSE, useExternal |-> TRUE, documentQuery |-> <<>>,
                 processingTimeMs |-> ms]
    IN IF specificMatch.found
       THEN base @@ [externalSources |-> specificMatch.sources,
                     intent |-> specificMatch.type, confidence |-> 950,
                     reasoning |-> <<"Specific identifier detected", specificMatch.identifier>>]
       ELSE IF domainMatch.domain # ""
       THEN base @@ [externalSources |-> domainMatch.sources,
                     intent |-> domainMatch.domain, confidence |-> domainMatch.confidence,
                     reasoning |-> <<"Classified as", domainMatch.domain>>]
       ELSE base @@ [externalSources |-> <<"pubmed">>, intent |-> "general_medical",
                     confidence |-> 600,
                     reasoning |-> <<"General medical query">>]

\* The pieces queries are put together from.
Fragments ==
    { <<"N", "c", "t">>, <<"1", "2", "3", "4", "5", "6", "7", "8">>, <<"9">>, <<" ">>,
      <<"x">>, <<"P", "M", "I", "D", ":">>, <<"1", "0", ".", "1", "2", "3", "4", "/", "a">>,
      <<"N", "D", "A">>, <<" ", "s", "a", "f", "e", "t", "y">>, <<"D", "r", "u", "g">>,
      <<"s", "t", "u", "d", "y">>, <<" ", "P", "M", "C", "9">> }

\* Queries are made of at most this many fragments.
MaxFrags == 3

\* decide takes at most this many ms.
MaxProcessingMs == 1

RECURSIVE Flatten(_)
Flatten(fs) == IF fs = <<>> THEN <<>> ELSE Head(fs) \o Flatten(Tail(fs))

InitDecide ==
    /\ \E n \in 0..MaxFrags : \E fs \in [1..n -> Fragments] : query = Flatten(fs)
    /\ decision = <<>>
    /\ classification = <<>>

\* decide(query) is called and returns.
Decide ==
    /\ decision = <<>>
    /\ \E ms \in 0..MaxProcessingMs : decision' = <<decide(query, ms)>>
    /\ UNCHANGED <<query, classification>>
    /\ UNCHANGED <<limiterVars, cacheVars, routeVars>>

NextDecide == Decide

InitDecideSpec == InitDecide /\ LimiterUnused /\ CacheUnused /\ RouteUnused

SpecDecide == InitDecideSpec /\ [][NextDecide]_vars

\* Keywords[k][i] is a phrase that pattern i of domain k matches and no other
\* pattern of any domain does.
Keywords ==
    << << <<"c", "l", "i", "n", "i", "c", "a", "l", " ", "t", "r", "i", "a", "l">>, <<"R", "e", "c", "r", "u", "i", "t", "m", "e", "n", "t">>, <<"p", "l", "a", "c", "e", "b", "o">> >>,
       << <<"S", "a", "f", "e", "t", "y">>, <<"F", "D", "A", " ", "r", "e", "c", "a", "l", "l">>, <<"w", "a", "r", "n", "i", "n", "g">> >>,
       << <<"d", "r", "u", "g">>, <<"d", "o", "s", "a", "g", "e">>, <<"O", "T", "C">> >>,
       << <<"l", "i", "t", "e", "r", "a", "t", "u", "r", "e">>, <<"R", "e", "s", "e", "a", "r", "c", "h">>, <<"e", "v", "i", "d", "e", "n", "c", "e">> >> >>

\* The query made of the first counts[k] keywords of each domain k, each
\* followed by a space.
RECURSIVE KeywordQuery(_, _, _)
KeywordQuery(counts, k, i) ==
    IF k > Len(domains) THEN <<>>
    ELSE IF i > counts[k] THEN KeywordQuery(counts, k + 1, 1)
    ELSE Keywords[k][i] \o <<" ">> \o KeywordQuery(counts, k, i + 1)

\* A query that matches 0 to 3 patterns of each domain.
InitClassify ==
    /\ \E counts \in [1..Len(domains) -> 0..Len(Keywords[1])] :
          query = KeywordQuery(counts, 1, 1)
    /\ decision = <<>>
    /\ classification = <<>>

\* classifyDomain(query) is called and returns.
Classify ==
    /\ classification = <<>>
    /\ classification' = <<classifyDomain(query)>>
    /\ UNCHANGED <<query, decision>>
    /\ UNCHANGED <<limiterVars, cacheVars, routeVars>>

NextClassify == Classify

InitClassifySpec == InitClassify /\ LimiterUnused /\ CacheUnused /\ RouteUnused

SpecClassify == InitClassifySpec /\ [][NextClassify]_vars

(***************************************************************************)
(* POST /batch: validateQuery, then the route handler                      *)
(***************************************************************************)

\* validateQuery: query.length < 3 and query.length > 1000 are rejected.
MinQueryLength == 3
MaxQueryLength == 1000

\* The handler: queries.length > 100 is rejected.
MaxBatchSize == 100

\* Values of req.body.query: absent, a number (0 or not), an object, or a
\* string, of which validateQuery reads only the length.
QueryValues ==
    {[type |-> "undefined"], [type |-> "number", zero |-> TRUE],
     [type |-> "number", zero |-> FALSE], [type |-> "object"]}
    \cup {[type |-> "string", length |-> n] :
            n \in {0, MinQueryLength - 1, MinQueryLength, MaxQueryLength,
                   MaxQueryLength + 1}}

\* Values of req.body.queries: absent, a string (which has a length but is no
\* array), or an array, of which the handler reads only the length.
QueriesValues ==
    {[type |-> "undefined"], [type |-> "string", length |-> 5]}
    \cup {[type |-> "array", length |-> n] :
            n \in {0, 1, 2, MaxBatchSize, MaxBatchSize + 1}}

\* !v is false
Truthy(v) ==
    CASE v.type = "undefined" -> FALSE
      [] v.type = "number" -> ~v.zero
      [] v.type = "string" -> v.length > 0
      [] OTHER -> TRUE

\* Array.isArray(v)
IsArray(v) == v.type = "array"

\* A request arrives at POST /batch with a parsed JSON body.
InitRoute ==
    /\ \E q \in QueryValues : \E qs \in QueriesValues : body = [query |-> q, queries |-> qs]
    /\ stage = "validate"
    /\ status = 0
    /\ batches = <<>>

\* validateQuery(req, res, next): answers 400, or calls next().
ValidateQuery ==
    /\ stage = "validate"
    /\ LET q == body.query IN
       IF \/ ~Truthy(q)
          \/ q.type # "string"
          \/ q.length < MinQueryLength
          \/ q.length > MaxQueryLength
       THEN stage' = "done" /\ status' = 400
       ELSE stage' = "handler" /\ status' = status
    /\ UNCHANGED <<body, batches>>
    /\ UNCHANGED <<limiterVars, cacheVars, decideVars>>

\* A handler that forgets the upper limit.
BatchHandlerNoLimit ==
    /\ stage = "handler"
    /\ LET queries == body.queries IN
       IF ~IsArray(queries) \/ queries.length = 0
       THEN stage' = "done" /\ status' = 400 /\ batches' = batches
       ELSE /\ batches' = Append(batches, queries)
            /\ stage' = "processing" /\ status' = status
    /\ UNCHANGED body
    /\ UNCHANGED <<limiterVars, cacheVars, decideVars>>

\* The handler of POST /batch, up to its answer or to the call of
\* orchestrator.processBatch(queries, options).
BatchHandler ==
    /\ stage = "handler"
    /\ LET queries == body.queries IN
       IF ~IsArray(queries) \/ queries.length = 0
       THEN stage' = "done" /\ status' = 400 /\ batches' = batches
       ELSE IF queries.length > MaxBatchSize
       THEN stage' = "done" /\ status' = 400 /\ batches' = batches
       ELSE /\ batches' = Append(batches, queries)
            /\ stage' = "processing" /\ status' = status
    /\ UNCHANGED body
    /\ UNCHANGED <<limiterVars, cacheVars, decideVars>>

\* processBatch resolved: res.json(batchResult).
ProcessBatchResolved ==
    /\ stage = "processing"
    /\ stage' = "done" /\ status' = 200
    /\ UNCHANGED <<body, batches>>
    /\ UNCHANGED <<limiterVars, cacheVars, decideVars>>

\* processBatch rejected: the catch answers 500.
ProcessBatchRejected ==
    /\ stage = "processing"
    /\ stage' = "done" /\ status' = 500
    /\ UNCHANGED <<body, batches>>
    /\ UNCHANGED <<limiterVars, cacheVars, decideVars>>

NextRoute ==
    \/ ValidateQuery
    \/ BatchHandler
    \/ ProcessBatchResolved
    \/ ProcessBatchRejected

InitRouteSpec == InitRoute /\ LimiterUnused /\ CacheUnused /\ DecideUnused

SpecRoute == InitRouteSpec /\ [][NextRoute]_vars

(***************************************************************************)
(* The components together                                                 *)
(***************************************************************************)
Init == InitLimiter /\ InitCache /\ InitDecide /\ InitRoute

Next == NextLimiter \/ NextCache \/ NextDecide \/ NextClassify \/ NextRoute

Spec == Init /\ [][Next]_vars

(***************************************************************************)
(* Claims about the DecisionAgent                                          *)
(***************************************************************************)

\* C8: whenever decide has answered a query that contains NCT followed by 8
\* digits as a whole word, the answer has confidence 0.95, intent
\* clinical_trial_lookup and sources [clinicaltrials, pubmed].
C8_TrialIdShortCircuit ==
    (decision # <<>> /\ Test(nct, query)) =>
        /\ decision[1].confidence = 950
        /\ decision[1].intent = "clinical_trial_lookup"
        /\ decision[1].externalSources = <<"clinicaltrials", "pubmed">>

\* C8 witness: a query holding a trial id followed by a literature id has
\* been answered as a trial lookup.
C8_Witness ==
    /\ decision # <<>>
    /\ Test(nct, query)
    /\ Test(pmid, query)
    /\ decision[1].intent = "clinical_trial_lookup"

\* C9: whenever decide has answered a query that contains a trial id, a
\* literature id, a DOI or an FDA application number, the answer has
\* confidence 0.95 and a lookup intent, not a domain or the fallback.
C9_AllIdentifierKinds ==
    (/\ decision # <<>>
     /\ Test(nct, query) \/ Test(pmid, query) \/ Test(doi, query) \/ Test(fda, query))
    => /\ decision[1].confidence = 950
       /\ decision[1].intent \notin
            {"general_medical"} \cup {domains[k].domain : k \in 1..Len(domains)}

\* C10: whenever decide has answered a query that matches no identifier pattern
\* and no pattern of any domain, the answer is the fallback: general_medical,
\* confidence 0.6, sources [pubmed], useExternal; and no answer has an empty
\* source list.
C10_Fallback ==
    decision # <<>> =>
        /\ decision[1].externalSources # <<>>
        /\ (/\ ~Test(nct, query) /\ ~Test(pmid, query)
            /\ ~Test(doi, query) /\ ~Test(fda, query)
            /\ \A k \in 1..Len(domains) : \A i \in 1..Len(domains[k].patterns) :
                  ~Test(domains[k].patterns[i], ToLowerCase(query)))
           => /\ decision[1].intent = "general_medical"
              /\ decision[1].confidence = 600
              /\ decision[1].externalSources = <<"pubmed">>
              /\ decision[1].useExternal

\* C10 witness: a non-empty query with no identifier and no domain keyword has
\* been answered with the fallback.
C10_Witness ==
    /\ decision # <<>>
    /\ Len(query) >= 3
    /\ decision[1].intent = "general_medical"
    /\ decision[1].reasoning = <<"General medical query">>


\* The raw score of each domain for the query, and raw score x base confidence.
C11_Raw == [k \in 1..Len(domains) |-> calculateDomainScore(query, domains[k].patterns)]
C11_Combined == [k \in 1..Len(domains) |-> domains[k].confidence * C11_Raw[k]]

\* C11: classifyDomain returns the domain with the highest raw score x base
\* confidence among the domains whose raw score exceeds 0.3, the earlier one in
\* table order on equal combined scores, and no domain when there is none.
C11_DomainSelection ==
    classification # <<>> =>
        LET eligible == {k \in 1..Len(domains) : C11_Raw[k] > 3} IN
        IF eligible = {} THEN classification[1].domain = ""
        ELSE classification[1].domain =
               domains[CHOOSE k \in eligible : \A j \in eligible :
                          \/ C11_Combined[k] > C11_Combined[j]
                          \/ C11_Combined[k] = C11_Combined[j] /\ k <= j].domain


(***************************************************************************)
(* Claims about POST /batch                                                *)
(***************************************************************************)

\* C12: a request whose queries value is no array, is empty or has more than
\* 100 elements never reaches orchestrator.processBatch, and its answer is 400.
C12_BadBatchRejected ==
    (~IsArray(body.queries) \/ body.queries.length = 0
       \/ body.queries.length > MaxBatchSize)
    => /\ batches = <<>>
       /\ stage # "processing"
       /\ stage = "done" => status = 400

\* C12 witness: a request that passed validateQuery with 101 queries has been
\* answered 400 by the handler.
C12_Witness ==
    /\ stage = "done" /\ status = 400
    /\ body.query.type = "string" /\ body.query.length = MinQueryLength
    /\ IsArray(body.queries) /\ body.queries.length = MaxBatchSize + 1

\* C13: a request carrying an array of 1 to 100 queries reaches
\* orchestrator.processBatch with that array, whatever its query field is.
C13_BatchAccepted ==
    (/\ stage = "done"
     /\ IsArray(body.queries)
     /\ body.queries.length >= 1 /\ body.queries.length <= MaxBatchSize)
    => batches = <<body.queries>>

(***************************************************************************)
(* Claims about the CacheManager                                           *)
(***************************************************************************)

\* A get returned in this state, having run in one instant (no set completed
\* and no time passed while it waited for the durable tier).
QuietGet == outcome # <<>> /\ outcome[1].op = "get" /\ outcome[1].quiet

\* C2: a get of key k that follows a completed set(k, v, ttl) with no time
\* elapsed and no set in between returns v (stated for the values JSON carries).
C2_RoundTrip ==
    (/\ QuietGet
     /\ outcome[1].last # <<>>
     /\ outcome[1].last[1].latest
     /\ outcome[1].last[1].age = 0
     /\ outcome[1].last[1].data # "NaN")
    => outcome[1].result = outcome[1].last[1].data

\* C3: a get of key k performed ttl seconds or more after the last completed
\* set(k, v, ttl) returns null.
C3_Expiry ==
    (/\ QuietGet
     /\ outcome[1].last # <<>>
     /\ outcome[1].last[1].age >= outcome[1].last[1].ttl)
    => outcome[1].result = "null"

\* C4, the step of a set that finds the map at capacity: exactly the first
\* entry in insertion order is removed, then the new entry is inserted.
C4_EvictsFirst ==
    (/\ outcome' # <<>>
     /\ outcome'[1].op = "set"
     /\ Len(memoryCache) >= maxMemoryItems)
    => memoryCache' =
         MapSet(Tail(memoryCache), KeyOf[outcome'[1].key],
                [key |-> KeyOf[outcome'[1].key], data |-> outcome'[1].value,
                 expiry |-> outcome'[1].ttl])

\* C4: the in-process map never holds more than maxMemoryItems entries, and a
\* set that finds it at capacity evicts exactly its first entry.
C4_CapacityBound ==
    /\ [](Len(memoryCache) <= maxMemoryItems)
    /\ [][C4_EvictsFirst]_vars

\* C4 witness: the map is at capacity and a key that was set is no longer in it.
C4_Witness ==
    /\ Len(memoryCache) = maxMemoryItems
    /\ \E k \in CacheKeys : lastSet[k] # <<>> /\ IndexOf(memoryCache, k) = 0

\* C5: no get or set raises; a completed set leaves its value under its cache
\* key in the in-process map whatever the durable tier did; a get whose durable
\* read failed answers from the in-process map.
C5_FailureAbsorbed ==
    outcome # <<>> =>
        /\ ~outcome[1].threw
        /\ outcome[1].op = "set" =>
              \E i \in 1..Len(memoryCache) :
                  /\ memoryCache[i].key = KeyOf[outcome[1].key]
                  /\ memoryCache[i].data = outcome[1].value
                  /\ memoryCache[i].expiry = outcome[1].ttl
        /\ (outcome[1].op = "get" /\ outcome[1].redis = "error") =>
              outcome[1].result = MemoryLookup(memoryCache, KeyOf[outcome[1].key])

\* C5 witness: a set whose durable write failed has completed, and the map
\* holds its value.
C5_Witness ==
    /\ outcome # <<>>
    /\ outcome[1].op = "set"
    /\ outcome[1].redis = "error"
    /\ MemoryLookup(memoryCache, KeyOf[outcome[1].key]) = outcome[1].value

\* The bytes that the first KeyChars base64 characters encode.
C15_PrefixBytes == (KeyChars * 3) \div 4
C15_Prefix(input) == SubSeq(input, 1, Min(C15_PrefixBytes, Len(input)))

\* Inputs of 22 to 26 bytes that differ in their first byte, in byte 24 or
\* beyond byte 24, and the short inputs of the runs.
C15_Probes ==
    Inputs \cup
    { [i \in 1..n |-> IF i = 1 THEN first ELSE IF i = C15_PrefixBytes THEN last
                      ELSE IF i > C15_PrefixBytes THEN tail ELSE 113] :
        n \in (C15_PrefixBytes - 2)..(C15_PrefixBytes + 2),
        first \in {113, 114}, last \in {113, 117}, tail \in {49, 50} }

\* Two inputs have the same cache key exactly when they agree on their first
\* 24 bytes.
C15_SameKeyIffSamePrefix ==
    \A a \in C15_Probes : \A b \in C15_Probes :
        (GenerateKey(a) = GenerateKey(b)) <=> (C15_Prefix(a) = C15_Prefix(b))

\* C15: inputs share a cache key exactly when they agree on their first 24
\* bytes; a get under one input that follows at once a completed set(k1, v1, ttl)
\* under another input with the same cache key returns v1; and a get returns
\* a value only if a set was made under its own cache key.
C15_KeyIsolation ==
    /\ C15_SameKeyIffSamePrefix
    /\ (/\ QuietGet
        /\ outcome[1].last # <<>>
        /\ outcome[1].last[1].input # outcome[1].key
        /\ outcome[1].last[1].latest
        /\ outcome[1].last[1].age = 0
        /\ outcome[1].last[1].data # "NaN")
       => outcome[1].result = outcome[1].last[1].data
    /\ (outcome # <<>> /\ outcome[1].op = "get" /\ outcome[1].result # "null")
       => outcome[1].last # <<>>

\* The keys of the map in insertion order.
C17_Keys(m) == [i \in 1..Len(m) |-> m[i].key]

\* C17, one step.  A set that completes with the map at capacity removes the
\* first entry in insertion order whatever its expiry and whether or not its own
\* key is present: with its key present elsewhere the map shrinks by one, with
\* its key first the key moves to the end, otherwise the key is appended.  A
\* step in which no set completes changes no key of the map, so get removes
\* nothing.
C17_Step ==
    LET setDone == outcome' # <<>> /\ outcome'[1].op = "set"
        key == KeyOf[outcome'[1].key]
        old == C17_Keys(memoryCache)
        rest == Tail(old)
    IN /\ (setDone /\ Len(memoryCache) >= maxMemoryItems) =>
             C17_Keys(memoryCache') =
                IF \E i \in 1..Len(rest) : rest[i] = key THEN rest
                ELSE Append(rest, key)
       /\ ~setDone => C17_Keys(memoryCache') = old

\* C17: eviction looks at insertion order alone, and get never removes an entry.
C17_EvictionIgnoresPresence == [][C17_Step]_vars

\* C17 witness: a set has just completed after which the map holds an expired
\* entry while a key whose last set is still live has been evicted.
C17_Witness ==
    /\ outcome # <<>> /\ outcome[1].op = "set"
    /\ \E i \in 1..Len(memoryCache) : memoryCache[i].expiry = 0
    /\ \E k \in CacheKeys :
          /\ lastSet[k] # <<>>
          /\ lastSet[k][1].age < lastSet[k][1].ttl
          /\ \A i \in 1..Len(memoryCache) : memoryCache[i].key # k

====
